---- MODULE Spec2Model ----
(***************************************************************************)
(* Gemini Co-Drawing (src/Home.tsx, the voice-enabled component, lines     *)
(* 487-1060): the canvas with its snapshot undo/redo history, the          *)
(* generated-image / imported-file loader, the image-generation request    *)
(* and the voice capture pipeline.                                         *)
(*                                                                         *)
(* Each action is one handler or one asynchronous callback.  State updates  *)
(* take effect at once in the state variables; what the page shows and     *)
(* what the handlers' closures read is `rendered`, the values of the last  *)
(* render.  The handler of a user event that updates state is followed by  *)
(* its render; the updates of an asynchronous callback (img.onload,        *)
(* FileReader.onload, a promise continuation, a session callback) wait     *)
(* for the render step.                                                    *)
(***************************************************************************)
EXTENDS Integers, Sequences, FiniteSets, TLC

(* ------------------------------- bounds -------------------------------- *)
\* pixels of the abstract raster (pixel 1: the centre, the others: the margin)
NPix == 2
\* user-interface events issued in a behaviour
MaxOps == 5
\* image decodes and file reads in flight at once
MaxPending == 2
\* canvas elements ever mounted (the first one included)
MaxMounts == 2
\* mutating operations tracked in one run of the history scenarios
RunMax == 3
\* startListening calls in a behaviour
MaxStarts == 2
\* audio frames the capture callbacks produce in a behaviour
MaxFrames == 3
\* transcript messages delivered in a behaviour
MaxMsgs == 3
\* characters of the prompt
MaxPrompt == 7
\* pieces of an error string
MaxErrLen == 5
\* user-interface events, transcript messages and audio frames when the whole
\* component is in use together
JointOps == 3
JointMsgs == 1
JointFrames == 1
\* user-interface events when dictating and typing go on together
PromptOps == 3

(* ------------------------------ the raster ----------------------------- *)
\* "T": transparent (a fresh canvas, or after clearRect); "W": the white
\* fill; "K": the pen; "G": a pixel of a generated or imported image
Colours == {"T", "W", "K", "G"}
Pixels == 1..NPix
\* the null of generatedImage, backgroundImageRef and of an absent snapshot
NoUrl == [mime |-> "null", box |-> {}, px |-> <<>>]

\* source-over compositing of one pixel
Over(src, dst) == IF src = "T" THEN dst ELSE src

\* ctx.fillRect(0, 0, width, height) with fillStyle '#FFFFFF'
FillWhite == [p \in Pixels |-> "W"]

\* ctx.clearRect(0, 0, width, height); also the bitmap of a new <canvas>
Cleared == [p \in Pixels |-> "T"]

\* canvas.toDataURL(): the PNG of the bitmap, canvas-sized
toDataURL(px) == [mime |-> "image/png", box |-> Pixels, px |-> px]

\* the images the generation call or a file import can deliver: one with the
\* canvas's aspect ratio and one that the fit letterboxes into the centre
GenUrls ==
    { [mime |-> "image/png", box |-> Pixels, px |-> [p \in Pixels |-> "G"]],
      [mime |-> "image/png", box |-> {1}, px |-> [p \in Pixels |-> "G"]] }

\* ctx.drawImage(img, ...): the image's pixels composited over the bitmap
\* inside the rectangle the image is drawn into
drawImage(img, px) ==
    [p \in Pixels |-> IF p \in img.box THEN Over(img.px[p], px[p]) ELSE px[p]]

\* img.onload of loadState: clearRect, then drawImage(img, 0, 0)
loadStatePaint(img) == drawImage(img, Cleared)

\* drawImageToCanvas: white fill, then the background image fitted and centred
drawImageToCanvas(img) == drawImage(img, FillWhite)


\* the colours of the colour input: the initial black and a green
PenColours == {"K", "G"}

\* The current path of a 2d context, as far as stroke() needs it: the point the
\* next segment starts from (0: the path is empty) and the pixels its
\* segments cover.
NoPath == [at |-> 0, cover |-> {}]

\* a point whose x or y is NaN
NaNPoint == 0

\* getCoordinates(e) for a pointer at pixel p.  clientX and clientY are read
\* as e.clientX || (e.touches && ...): a mouse event with clientX or clientY
\* equal to 0 (zero: the pointer in the left column or the top row of the
\* viewport) has no touches, so the coordinate is undefined and x or y is NaN
getCoordinates(p, zero) == IF zero THEN NaNPoint ELSE p

\* ctx.beginPath(); ctx.moveTo(x, y): moveTo with a NaN argument does nothing
\* and leaves the new path empty
beginPathMoveTo(q) == [at |-> q, cover |-> {}]

\* ctx.lineTo(x, y): nothing with a NaN argument; a segment from the current
\* point otherwise; on an empty path the point starts a subpath and is
\* joined to itself, which the round line cap paints as a dot
lineTo(pa, p) ==
    IF p = NaNPoint THEN pa
    ELSE IF pa.at = 0 THEN [at |-> p, cover |-> pa.cover \cup {p}]
    ELSE [at |-> p, cover |-> pa.cover \cup {pa.at, p}]

\* ctx.stroke() with strokeStyle = colour: the whole current path is painted
stroke(px, pa, colour) ==
    [p \in Pixels |-> IF p \in pa.cover THEN colour ELSE px[p]]

(* ------------------------------- errors -------------------------------- *)
\* error.message values of a rejected generateContent call
ErrMsgs == {"", "quota exceeded", "404 Requested entity was not found."}
\* msg.includes("Requested entity was not found")
includesNotFound(msg) == msg = "404 Requested entity was not found."

\* The error strings parseError is given, as sequences of pieces whose
\* concatenation is the string.  The text {"error": occurs in a string only as
\* the first piece, a closing brace only as the second and a line break only
\* as the last, so matching on pieces is matching on the string.
ErrPieces ==
    {"{\"error\":", "}", "{\"message\":\"boom\"", "{\"message\":\"\"", "{\"code\":1",
     "null", "x", "\n"}

RECURSIVE SeqsUpTo(_)
SeqsUpTo(n) ==
    IF n = 0 THEN {<<>>}
    ELSE LET shorter == SeqsUpTo(n - 1)
         IN  shorter \cup {Append(q, t) : q \in {r \in shorter : Len(r) = n - 1}, t \in ErrPieces}

ErrStrings == SeqsUpTo(MaxErrLen)

\* the end of the line that holds position i: the next line break, or the end
LineEnd(str, i) ==
    LET brk == {k \in (i + 1)..Len(str) : str[k] = "\n"}
    IN  IF brk = {} THEN Len(str) + 1 ELSE CHOOSE k \in brk : \A l \in brk : k <= l

\* /{"error":(.*)}/gm .exec(error) on a new regex: the leftmost {"error": with
\* a closing brace later on its line; the group runs, greedily, up to the last
\* closing brace of that line.  matched FALSE is the null result.
regexExec(error) ==
    LET closers(i) == {j \in (i + 1)..(LineEnd(error, i) - 1) : error[j] = "}"}
        starts == {i \in 1..Len(error) : error[i] = "{\"error\":" /\ closers(i) # {}}
    IN  IF starts = {} THEN [matched |-> FALSE, group |-> <<>>]
        ELSE LET i == CHOOSE k \in starts : \A l \in starts : k <= l
                 j == CHOOSE k \in closers(i) : \A l \in closers(i) : k >= l
             IN  [matched |-> TRUE, group |-> SubSeq(error, i + 1, j - 1)]

\* JSON.parse(e): ok FALSE is the SyntaxError; isNull the value null; message
\* the value's message property, "undefined" when it has none.  Line breaks
\* between pieces are insignificant whitespace.
RECURSIVE JSONparse(_)
JSONparse(e) ==
    LET t == SelectSeq(e, LAMBDA x : x # "\n")
        object(msg) == [ok |-> TRUE, isNull |-> FALSE, message |-> msg]
    IN  IF t = <<"null">> THEN [ok |-> TRUE, isNull |-> TRUE, message |-> "undefined"]
        ELSE IF t = <<"{\"message\":\"boom\"", "}">> THEN object("boom")
        ELSE IF t = <<"{\"message\":\"\"", "}">> THEN object("")
        ELSE IF t = <<"{\"code\":1", "}">> THEN object("undefined")
        ELSE IF /\ Len(t) >= 3
                /\ t[1] = "{\"error\":"
                /\ t[Len(t)] = "}"
                /\ JSONparse(SubSeq(t, 2, Len(t) - 1)).ok
             THEN object("undefined")
        ELSE [ok |-> FALSE, isNull |-> FALSE, message |-> "undefined"]

\* what a call of parseError comes to: a returned string, or an exception
returns(str) == [threw |-> FALSE, value |-> str]
throws == [threw |-> TRUE, value |-> <<>>]

\* parseError: m[1] on a null match, the SyntaxError of JSON.parse and
\* err.message on null all throw inside the try and are caught
parseError(error) ==
    LET m == regexExec(error)
    IN  IF ~m.matched THEN returns(error)
        ELSE LET err == JSONparse(m.group)
             IN  IF ~err.ok \/ err.isNull THEN returns(error)
                 ELSE IF err.message \notin {"undefined", ""} THEN returns(<<err.message>>)
                 ELSE returns(error)


(* ------------------------------ the state ------------------------------ *)
VARIABLES
    hasKey,             \* useState<boolean | null>: "null", "true", "false"
    keyCheck,           \* hasSelectedApiKey() of the mount effect is pending
    keySelect,          \* openSelectKey() calls pending
    canvasRef,          \* canvasRef.current: 0 (null) or the element's id
    mounts,             \* canvas elements created so far
    surface,            \* the bitmap of the mounted canvas
    path,               \* the current path of the mounted canvas's 2d context
    penColor,
    isDrawing,
    undoStack,
    redoStack,
    generatedImage,
    backgroundImageRef,
    pending,            \* Image decodes and file reads in flight
    isLoading,
    inFlight,           \* generateContent calls awaiting their response
    showErrorModal,
    errorMessage,
    rendered,           \* the state values of the last render: what the
                        \*   handlers' closures and the page's elements hold
    modalText,          \* what parseError(errorMessage) came to when the error
                        \*   modal was last rendered from a string of ErrStrings
    isListening,
    audioContextRef,    \* the four refs: 0 (null) or the startListening call
    streamRef,          \*   that created the object referred to
    processorRef,
    sessionPromiseRef,
    calls,              \* per startListening call: where it is, and its objects
    nStarts,            \* startListening calls made so far
    resolved,           \* the calls whose sessionPromise has resolved
    thenQ,              \* per call: the frames waiting in sessionPromise.then
    sent,               \* per call: the frames passed to sendRealtimeInput
    nFrames,            \* audio frames produced so far
    frame,              \* history: the last frame's sample and its int16 value
    prompt,             \* useState(''): the text of the prompt input
    nMsgs,              \* transcript messages delivered so far
    pl,                 \* history: the transcript fragments and manual edits
    wasStopped,         \* history: the pipeline was Stopped before the last step
    lastOp,             \* history: the handler or callback that ran last
    nOps,               \* history: user-interface events issued so far
    rt                  \* history: the current run of mutations, undos and redos

\* the component's state and refs on the canvas side
canvasState == <<hasKey, keyCheck, keySelect, penColor, isDrawing, undoStack, redoStack,
                 generatedImage, backgroundImageRef, isLoading, inFlight, showErrorModal,
                 errorMessage, modalText>>
\* what a render and the callbacks of the page's elements act on
domVars == <<canvasRef, mounts, surface, path, pending, rendered>>
canvasVars == <<canvasState, domVars>>
audioVars == <<isListening, audioContextRef, streamRef, processorRef, sessionPromiseRef,
               calls, nStarts>>
frameVars == <<resolved, thenQ, sent, nFrames, frame>>
promptVars == <<prompt, nMsgs, pl>>
voiceVars == <<audioVars, frameVars, promptVars, wasStopped>>
vars == <<canvasVars, voiceVars, lastOp, nOps, rt>>

\* the main tree (with the canvas and the toolbar) is on the page unless the
\* last render saw hasKey === false
uiRendered == rendered.hasKey # "false"

\* what the canvas, history, key and generation handlers leave alone: none of
\* them calls setPrompt or touches the voice pipeline
canvasFrame == UNCHANGED <<voiceVars, modalText>>

RemoveAt(s, i) == [j \in 1..(Len(s) - 1) |-> IF j < i THEN s[j] ELSE s[j + 1]]

(* ------------------- history of the current run (rt) ------------------- *)
\* rt records, for the claims about undo/redo, the run in progress: a series
\* of mutating operations (phase "mut"), then undo calls ("undo"), then redo
\* calls ("redo").
\*   pre[i]  the bitmap when the i-th mutating operation of the run began
\*   F       the bitmap when the first undo of the run was called
\*   k, j    undo and redo calls made in the run
\*   handed  the snapshot the last undo/redo passed to loadState, while
\*           nothing else has touched the bitmap since
\*   popped  the snapshot the state update of that undo/redo removed from
\*           its stack
\*   mclean  every mutating operation of the run began with no decode pending
\*   uclean  every undo/redo of the run began with no decode pending
\*   plain   the run's mutating operations are strokes and clears only
\*   dropped the redoStack entries the last saveState discarded
rtIdle ==
    [phase |-> "idle", pre |-> <<>>, F |-> [p \in Pixels |-> "T"], k |-> 0, j |-> 0, handed |-> NoUrl,
     popped |-> NoUrl, mclean |-> FALSE, uclean |-> FALSE, plain |-> FALSE, dropped |-> 0]

rtVoid == [rtIdle EXCEPT !.phase = "void"]

rtMut(isPlain, clean) ==
    LET cont == rt.phase = "mut" /\ Len(rt.pre) < RunMax
    IN  [phase |-> "mut",
         pre |-> IF cont THEN Append(rt.pre, surface) ELSE <<surface>>,
         F |-> Cleared, k |-> 0, j |-> 0, handed |-> NoUrl, popped |-> NoUrl,
         mclean |-> (cont => rt.mclean) /\ clean,
         uclean |-> TRUE,
         plain |-> (cont => rt.plain) /\ isPlain,
         dropped |-> Len(redoStack)]

rtDraw == IF rt.phase = "mut" THEN rt ELSE rtVoid

rtUndo(h, po) ==
    IF rt.phase = "mut"
    THEN [rt EXCEPT !.phase = "undo", !.F = surface, !.k = 1, !.handed = h, !.popped = po,
                    !.uclean = (pending = <<>>), !.dropped = 0]
    ELSE IF rt.phase = "undo" /\ rt.k < Len(rt.pre)
    THEN [rt EXCEPT !.k = @ + 1, !.handed = h, !.popped = po,
                    !.uclean = @ /\ pending = <<>>]
    ELSE [rtVoid EXCEPT !.handed = h, !.popped = po]

rtRedo(h, po) ==
    IF rt.phase = "undo"
    THEN [rt EXCEPT !.phase = "redo", !.j = 1, !.handed = h, !.popped = po,
                    !.uclean = @ /\ pending = <<>>]
    ELSE IF rt.phase = "redo" /\ rt.j < rt.k
    THEN [rt EXCEPT !.j = @ + 1, !.handed = h, !.popped = po,
                    !.uclean = @ /\ pending = <<>>]
    ELSE [rtVoid EXCEPT !.handed = h, !.popped = po]

(* ------------------------------ the render ----------------------------- *)
\* Handlers of discrete user events (click, mousedown, mouseup, touchstart,
\* touchend, input, change, submit) that update state are followed by their
\* render before the next event.  The handler of a continuous event
\* (mouseleave) and a callback that is not a user event (img.onload,
\* FileReader.onload, a resumed async function, a session callback) only
\* queue their updates: the render comes later on its own (the render step),
\* and a user event handled in between runs the handlers of the render
\* before.

\* the state values a render sees
Latest ==
    [undoStack |-> undoStack', redoStack |-> redoStack',
     generatedImage |-> generatedImage', hasKey |-> hasKey', isLoading |-> isLoading',
     showErrorModal |-> showErrorModal', isListening |-> isListening',
     prompt |-> prompt', isDrawing |-> isDrawing', penColor |-> penColor']

\* the state values as they are now
Current ==
    [undoStack |-> undoStack, redoStack |-> redoStack,
     generatedImage |-> generatedImage, hasKey |-> hasKey, isLoading |-> isLoading,
     showErrorModal |-> showErrorModal, isListening |-> isListening,
     prompt |-> prompt, isDrawing |-> isDrawing, penColor |-> penColor]

\* the effect on [generatedImage], run after a render in which the value has
\* changed: with an image and a canvas (ref) it starts a decode, which joins
\* the decodes q
generatedImageEffect(q, ref) ==
    IF generatedImage' # rendered.generatedImage /\ generatedImage' # NoUrl /\ ref # 0
    THEN Append(q, [kind |-> "gen", data |-> generatedImage', target |-> 0,
                    stale |-> FALSE])
    ELSE q

\* A render and its commit, after a handler that leaves the decodes q, the
\* bitmap s, the path pa and the history r.  hasKey === false replaces the main
\* tree by the key screen, which unmounts the canvas (canvasRef.current
\* becomes null); leaving the key screen mounts a new canvas element, whose
\* bitmap is transparent and whose context has an empty path (the effect that
\* calls initializeCanvas has no dependencies and ran once, on the first
\* mount).  Then the effects run.
Render(q, s, pa, r) ==
    LET unmount == hasKey' = "false" /\ rendered.hasKey # "false"
        mount == hasKey' # "false" /\ rendered.hasKey = "false"
        ref == IF unmount THEN 0 ELSE IF mount THEN mounts + 1 ELSE canvasRef
        after == generatedImageEffect(q, ref)
    IN  /\ mount => mounts < MaxMounts
        /\ Len(after) <= MaxPending
        /\ canvasRef' = ref
        /\ mounts' = IF mount THEN mounts + 1 ELSE mounts
        /\ surface' = IF unmount \/ mount THEN Cleared ELSE s
        /\ path' = IF unmount \/ mount THEN NoPath ELSE pa
        /\ rt' = IF unmount \/ mount THEN rtVoid ELSE r
        /\ pending' = after
        /\ rendered' = Latest

\* a handler or callback that is not followed by a render
NoRender(q, s, pa, r) ==
    /\ pending' = q
    /\ surface' = s
    /\ path' = pa
    /\ rt' = r
    /\ UNCHANGED <<canvasRef, mounts, rendered>>

\* the render of the updates that callbacks have queued
render ==
    /\ rendered # Current
    /\ lastOp' = "render"
    /\ UNCHANGED <<canvasState, voiceVars, nOps>>
    /\ Render(pending, surface, path, rt)

(* ----------------------------- the history ----------------------------- *)
\* a slip: a snapshot equal to the latest entry is not recorded again
setStackPushDeduped(prev, state) ==
    IF prev # <<>> /\ prev[Len(prev)] = state THEN prev ELSE Append(prev, state)

\* setUndoStack((prev) => [...prev, state]) and its redoStack twin
setStackPush(prev, state) == Append(prev, state)

\* setUndoStack((prev) => prev.slice(0, -1)) and its redoStack twin
setStackPop(prev) == SubSeq(prev, 1, Len(prev) - 1)

\* undoStack[undoStack.length - 1], read by the handler
stackTop(stack) == stack[Len(stack)]

\* history: the element that prev.slice(0, -1) leaves out
stackPopped(prev) == IF prev = <<>> THEN NoUrl ELSE prev[Len(prev)]

\* setRedoStack([]) of saveState
saveStateRedo(prev) == <<>>

\* saveState, called while the bitmap is px: nothing without a canvas
saveState(px) ==
    IF canvasRef = 0
    THEN UNCHANGED <<undoStack, redoStack>>
    ELSE /\ undoStack' = setStackPush(undoStack, toDataURL(px))
         /\ redoStack' = saveStateRedo(redoStack)

\* loadState(dataUrl): a decode in flight whose onload paints the canvas
\* element (and context) that loadState captured
loadState(dataUrl) == [kind |-> "load", data |-> dataUrl, target |-> canvasRef, stale |-> FALSE]

\* history: the decodes in flight when a later stroke, clear, undo or redo starts
MarkStale(q) == [i \in 1..Len(q) |-> [q[i] EXCEPT !.stale = TRUE]]

\* the handlers of the main tree can run only while it is on the page
UserOp(name) ==
    /\ uiRendered
    /\ nOps < MaxOps
    /\ nOps' = nOps + 1
    /\ lastOp' = name

keyFrame == <<hasKey, keyCheck, keySelect>>
submitFrame == <<isLoading, inFlight, showErrorModal, errorMessage>>

\* mousedown or touchstart on the canvas, at pixel q (zero: a mouse event
\* with clientX or clientY 0)
startDrawing(q, zero) ==
    /\ UserOp("startDrawing")
    /\ canvasFrame
    /\ saveState(surface)
    /\ isDrawing' = TRUE
    /\ UNCHANGED <<keyFrame, submitFrame, penColor, generatedImage, backgroundImageRef>>
    /\ Render(MarkStale(pending), surface, beginPathMoveTo(getCoordinates(q, zero)),
              rtMut(TRUE, pending = <<>>))

\* mousemove or touchmove at pixel p (zero: a mouse event with clientX or
\* clientY 0); draw returns at once unless the isDrawing of its closure, the
\* last render's, is true, and strokes in the penColor of that closure.  It
\* updates no state, so no render follows.
draw(p, zero) ==
    /\ UserOp("draw")
    /\ canvasFrame
    /\ rendered.isDrawing
    /\ UNCHANGED <<keyFrame, submitFrame, penColor, isDrawing, undoStack, redoStack,
                   generatedImage, backgroundImageRef>>
    /\ LET pa == lineTo(path, getCoordinates(p, zero))
       IN  NoRender(pending, stroke(surface, pa, rendered.penColor), pa, rtDraw)

\* setIsDrawing(false), from mouseup or touchend (discrete: rendered with the
\* event) or from mouseleave (continuous: the update is queued and rendered
\* later)
stopDrawing(discrete) ==
    /\ UserOp("stopDrawing")
    /\ canvasFrame
    /\ isDrawing
    /\ isDrawing' = FALSE
    /\ UNCHANGED <<keyFrame, submitFrame, penColor, undoStack, redoStack,
                   generatedImage, backgroundImageRef>>
    /\ IF discrete
       THEN Render(pending, surface, path, rt)
       ELSE NoRender(pending, surface, path, rt)

clearCanvas ==
    /\ UserOp("clearCanvas")
    /\ canvasFrame
    /\ saveState(surface)
    /\ generatedImage' = NoUrl
    /\ backgroundImageRef' = NoUrl
    /\ UNCHANGED <<keyFrame, submitFrame, penColor, isDrawing>>
    /\ Render(MarkStale(pending), FillWhite, path, rtMut(TRUE, pending = <<>>))

\* onChange of the colour input
handleColorChange(c) ==
    /\ UserOp("handleColorChange")
    /\ canvasFrame
    /\ c # penColor
    /\ penColor' = c
    /\ UNCHANGED <<keyFrame, submitFrame, isDrawing, undoStack, redoStack, generatedImage,
                   backgroundImageRef>>
    /\ Render(pending, surface, path, rt)

\* the undo and redo buttons carry disabled={undoStack.length === 0} and
\* disabled={redoStack.length === 0}, as of the last render
undoDisabled == rendered.undoStack = <<>>
redoDisabled == rendered.redoStack = <<>>

\* undo, from its button: the test of the stack and the snapshot handed to
\* loadState come from the undoStack of the handler's closure (the last
\* render), the removal is a functional update of the latest stack
undo ==
    /\ UserOp("undo")
    /\ canvasFrame
    /\ ~undoDisabled
    /\ UNCHANGED <<keyFrame, submitFrame, penColor, isDrawing, generatedImage,
                   backgroundImageRef>>
    /\ IF rendered.undoStack = <<>> \/ canvasRef = 0
       THEN /\ UNCHANGED <<undoStack, redoStack>>
            /\ NoRender(pending, surface, path, rtUndo(NoUrl, NoUrl))
       ELSE /\ Len(pending) < MaxPending
            /\ redoStack' = setStackPush(redoStack, toDataURL(surface))
            /\ undoStack' = setStackPop(undoStack)
            /\ Render(Append(MarkStale(pending), loadState(stackTop(rendered.undoStack))),
                      surface, path,
                      rtUndo(stackTop(rendered.undoStack), stackPopped(undoStack)))

redo ==
    /\ UserOp("redo")
    /\ canvasFrame
    /\ ~redoDisabled
    /\ UNCHANGED <<keyFrame, submitFrame, penColor, isDrawing, generatedImage,
                   backgroundImageRef>>
    /\ IF rendered.redoStack = <<>> \/ canvasRef = 0
       THEN /\ UNCHANGED <<undoStack, redoStack>>
            /\ NoRender(pending, surface, path, rtRedo(NoUrl, NoUrl))
       ELSE /\ Len(pending) < MaxPending
            /\ undoStack' = setStackPush(undoStack, toDataURL(surface))
            /\ redoStack' = setStackPop(redoStack)
            /\ Render(Append(MarkStale(pending), loadState(stackTop(rendered.redoStack))),
                      surface, path,
                      rtRedo(stackTop(rendered.redoStack), stackPopped(redoStack)))

\* handleExport: the canvas serialised into the download link
handleExport ==
    /\ UserOp("handleExport")
    /\ canvasFrame
    /\ canvasRef # 0
    /\ UNCHANGED <<keyFrame, submitFrame, penColor, isDrawing, undoStack, redoStack,
                   generatedImage, backgroundImageRef>>
    /\ NoRender(pending, surface, path, rt)

\* img.onload of loadState, for the decode at place i
loadOnload(i) ==
    /\ i \in 1..Len(pending)
    /\ canvasFrame
    /\ pending[i].kind = "load"
    /\ lastOp' = "loadOnload"
    /\ UNCHANGED <<keyFrame, submitFrame, penColor, isDrawing, undoStack, redoStack,
                   generatedImage, backgroundImageRef, nOps>>
    /\ NoRender(RemoveAt(pending, i),
                IF pending[i].target = canvasRef
                THEN loadStatePaint(pending[i].data)
                ELSE surface,
                path, rt)

(* --------------------- generated and imported images ------------------- *)
\* img.onload of the effect: backgroundImageRef, drawImageToCanvas, saveState
genOnload(i) ==
    /\ i \in 1..Len(pending)
    /\ canvasFrame
    /\ pending[i].kind = "gen"
    /\ backgroundImageRef' = pending[i].data
    /\ LET s == IF canvasRef # 0 THEN drawImageToCanvas(pending[i].data) ELSE surface
       IN  /\ saveState(s)
           /\ NoRender(RemoveAt(pending, i), s, path,
                       IF canvasRef # 0 THEN rtMut(FALSE, Len(pending) = 1) ELSE rt)
    /\ lastOp' = "genOnload"
    /\ UNCHANGED <<keyFrame, submitFrame, penColor, isDrawing, generatedImage, nOps>>

\* onChange of the file input: no state is updated, the read starts
handleFileUpload(url) ==
    /\ UserOp("handleFileUpload")
    /\ canvasFrame
    /\ Len(pending) < MaxPending
    /\ UNCHANGED <<keyFrame, submitFrame, penColor, isDrawing, undoStack, redoStack,
                   generatedImage, backgroundImageRef>>
    /\ NoRender(Append(pending, [kind |-> "read", data |-> url, target |-> 0,
                                 stale |-> FALSE]),
                surface, path, rt)

\* reader.onload of handleFileUpload: setGeneratedImage(dataUrl)
readerOnload(i) ==
    /\ i \in 1..Len(pending)
    /\ canvasFrame
    /\ pending[i].kind = "read"
    /\ generatedImage' = pending[i].data
    /\ lastOp' = "readerOnload"
    /\ UNCHANGED <<keyFrame, submitFrame, penColor, isDrawing, undoStack, redoStack,
                   backgroundImageRef, nOps>>
    /\ NoRender(RemoveAt(pending, i), surface, path, rt)

(* ------------------------------ the API key ---------------------------- *)
\* checkApiKey, resumed with the answer of hasSelectedApiKey(): setHasKey
checkApiKey(exists) ==
    /\ keyCheck
    /\ canvasFrame
    /\ keyCheck' = FALSE
    /\ hasKey' = exists
    /\ lastOp' = "checkApiKey"
    /\ UNCHANGED <<keySelect, submitFrame, penColor, isDrawing, undoStack, redoStack,
                   generatedImage, backgroundImageRef, nOps>>
    /\ NoRender(pending, surface, path, rt)

\* handleSelectKey up to its await (the button is on both screens)
handleSelectKey ==
    /\ nOps < MaxOps
    /\ canvasFrame
    /\ nOps' = nOps + 1
    /\ lastOp' = "handleSelectKey"
    /\ keySelect' = keySelect + 1
    /\ UNCHANGED <<hasKey, keyCheck, submitFrame, penColor, isDrawing, undoStack,
                   redoStack, generatedImage, backgroundImageRef>>
    /\ NoRender(pending, surface, path, rt)

\* handleSelectKey resumed: openSelectKey() resolved, setHasKey(true)
selectKeyResolved ==
    /\ keySelect > 0
    /\ canvasFrame
    /\ keySelect' = keySelect - 1
    /\ hasKey' = "true"
    /\ lastOp' = "selectKeyResolved"
    /\ UNCHANGED <<keyCheck, submitFrame, penColor, isDrawing, undoStack, redoStack,
                   generatedImage, backgroundImageRef, nOps>>
    /\ NoRender(pending, surface, path, rt)

\* handleSelectKey resumed: openSelectKey() rejected, the catch logs it
selectKeyRejected ==
    /\ keySelect > 0
    /\ canvasFrame
    /\ keySelect' = keySelect - 1
    /\ lastOp' = "selectKeyRejected"
    /\ UNCHANGED <<hasKey, keyCheck, submitFrame, penColor, isDrawing, undoStack,
                   redoStack, generatedImage, backgroundImageRef, nOps>>
    /\ NoRender(pending, surface, path, rt)

(* --------------------------- image generation -------------------------- *)
\* a slip: a submit button without its disabled attribute
submitNeverDisabled == FALSE

\* the submit button carries disabled={isLoading}, as of the last render
submitDisabled == rendered.isLoading

\* the prompt input is `required`: with an empty value the browser cancels
\* the submission and no submit event reaches the form
promptMissing == rendered.prompt = <<>>

\* handleSubmit up to its await
handleSubmit ==
    /\ UserOp("handleSubmit")
    /\ canvasFrame
    /\ ~submitDisabled
    /\ ~promptMissing
    /\ canvasRef # 0
    /\ isLoading' = TRUE
    /\ inFlight' = inFlight + 1
    /\ UNCHANGED <<keyFrame, showErrorModal, errorMessage, penColor, isDrawing, undoStack,
                   redoStack, generatedImage, backgroundImageRef>>
    /\ Render(pending, surface, path, rt)

\* handleSubmit of the component's earlier revision (lines 245-300) when the
\* temporary canvas gives no 2d context: setIsLoading(true), the return
\* inside try, and the finally, all in one handler
handleSubmitNoContext ==
    /\ UserOp("handleSubmitNoContext")
    /\ canvasFrame
    /\ ~submitDisabled
    /\ ~promptMissing
    /\ canvasRef # 0
    /\ isLoading' = FALSE
    /\ UNCHANGED <<keyFrame, inFlight, showErrorModal, errorMessage, penColor, isDrawing,
                   undoStack, redoStack, generatedImage, backgroundImageRef>>
    /\ Render(pending, surface, path, rt)

\* a slip: the no-image branch without the finally
generateNoImageStuck ==
    /\ inFlight > 0
    /\ canvasFrame
    /\ inFlight' = inFlight - 1
    /\ lastOp' = "generateNoImage"
    /\ UNCHANGED <<keyFrame, isLoading, showErrorModal, errorMessage, penColor, isDrawing,
                   undoStack, redoStack, generatedImage, backgroundImageRef, nOps>>
    /\ NoRender(pending, surface, path, rt)

\* handleSubmit resumed with a response that holds an image part:
\* setGeneratedImage(imageUrl), then the finally
generateImage(url) ==
    /\ inFlight > 0
    /\ canvasFrame
    /\ inFlight' = inFlight - 1
    /\ generatedImage' = url
    /\ isLoading' = FALSE
    /\ lastOp' = "generateImage"
    /\ UNCHANGED <<keyFrame, showErrorModal, errorMessage, penColor, isDrawing, undoStack,
                   redoStack, backgroundImageRef, nOps>>
    /\ NoRender(pending, surface, path, rt)

\* handleSubmit resumed with a response without an image part: the alert
generateNoImage ==
    /\ inFlight > 0
    /\ canvasFrame
    /\ inFlight' = inFlight - 1
    /\ isLoading' = FALSE
    /\ lastOp' = "generateNoImage"
    /\ UNCHANGED <<keyFrame, showErrorModal, errorMessage, penColor, isDrawing, undoStack,
                   redoStack, generatedImage, backgroundImageRef, nOps>>
    /\ NoRender(pending, surface, path, rt)

\* the catch branch's choice of hasKey
catchHasKey(msg) == IF includesNotFound(msg) THEN "false" ELSE hasKey

\* the catch branch's choice of errorMessage
catchErrorMessage(msg) ==
    IF includesNotFound(msg) THEN "Sesi kunci API tamat atau tidak sah."
    ELSE IF msg = "" THEN "Ralat tidak dijangka berlaku."
    ELSE msg

\* handleSubmit resumed with a rejection: catch, then finally
generateRejected(msg) ==
    /\ inFlight > 0
    /\ canvasFrame
    /\ inFlight' = inFlight - 1
    /\ hasKey' = catchHasKey(msg)
    /\ errorMessage' = catchErrorMessage(msg)
    /\ showErrorModal' = TRUE
    /\ isLoading' = FALSE
    /\ lastOp' = "generateRejected"
    /\ UNCHANGED <<keyCheck, keySelect, penColor, isDrawing, undoStack, redoStack,
                   generatedImage, backgroundImageRef, nOps>>
    /\ NoRender(pending, surface, path, rt)

\* the two buttons of the error modal, which is on the page when the last
\* render saw showErrorModal
closeErrorModal ==
    /\ UserOp("closeErrorModal")
    /\ canvasFrame
    /\ rendered.showErrorModal
    /\ showErrorModal' = FALSE
    /\ UNCHANGED <<keyFrame, isLoading, inFlight, errorMessage, penColor, isDrawing,
                   undoStack, redoStack, generatedImage, backgroundImageRef>>
    /\ Render(pending, surface, path, rt)

(* ------------------------------- the voice ----------------------------- *)
CallIds == 1..MaxStarts

\* one startListening call and the objects it creates:
\*   pc       "none", "gum" (suspended at getUserMedia), "done"
\*   ctx      its AudioContext: "none", "running", "closed"
\*   stream   its MediaStream: "none", "live", "stopped"
\*   proc     its ScriptProcessorNode: "none", "connected", "disconnected"
\*   events   the audio thread has been queueing audioprocess events of its
\*            processor (connected on a running context): events queued
\*            before a disconnect or a close are still delivered after it
\*   session  its live session: "none", "connecting", "open", "failed", "closed"
noCall == [pc |-> "none", ctx |-> "none", stream |-> "none", proc |-> "none",
           events |-> FALSE,
           session |-> "none"]

\* the pipeline is Stopped: isListening false and the four refs null
Stopped ==
    /\ ~isListening
    /\ audioContextRef = 0
    /\ streamRef = 0
    /\ processorRef = 0
    /\ sessionPromiseRef = 0

\* stopListening, as an update of the calls' objects: the processor, stream
\* and context the refs point at are released; the session is not touched
stopListeningCalls(cs) ==
    [c \in CallIds |->
        [cs[c] EXCEPT
            !.proc = IF processorRef = c THEN "disconnected" ELSE @,
            !.stream = IF streamRef = c THEN "stopped" ELSE @,
            !.ctx = IF audioContextRef = c THEN "closed" ELSE @]]

\* a slip: setIsListening((v) => !v) in place of setIsListening(false)
stopListeningToggled(cs) ==
    /\ isListening' = ~isListening
    /\ calls' = stopListeningCalls(cs)
    /\ processorRef' = 0
    /\ streamRef' = 0
    /\ audioContextRef' = 0
    /\ sessionPromiseRef' = 0

\* stopListening, run after the caller has updated the calls to cs
stopListening(cs) ==
    /\ isListening' = FALSE
    /\ calls' = stopListeningCalls(cs)
    /\ processorRef' = 0
    /\ streamRef' = 0
    /\ audioContextRef' = 0
    /\ sessionPromiseRef' = 0

\* a slip: stopping the microphone also resets the drawing
audioFrameClearing ==
    /\ UNCHANGED canvasState
    /\ NoRender(pending, IF isListening' THEN surface ELSE Cleared, path, rt)

\* what the session callbacks and the resumed startListening leave alone: none
\* of them touches the canvas, the history or the generation state, and their
\* state updates wait for the render step
audioFrame ==
    /\ UNCHANGED canvasState
    /\ NoRender(pending, surface, path, rt)

\* startListening up to its await of getUserMedia; `if (isListening) return`
\* reads the isListening of the handler's closure
startListening ==
    /\ ~rendered.isListening
    /\ nStarts < MaxStarts
    /\ nStarts' = nStarts + 1
    /\ isListening' = TRUE
    /\ calls' = [calls EXCEPT ![nStarts + 1] = [noCall EXCEPT !.pc = "gum", !.ctx = "running"]]
    /\ audioContextRef' = nStarts + 1
    /\ UNCHANGED <<streamRef, processorRef, sessionPromiseRef>>

\* the microphone button: isListening is the one of the handler's closure
toggleListening ==
    /\ UserOp("toggleListening")
    /\ wasStopped' = Stopped
    /\ IF rendered.isListening
       THEN stopListening(calls) /\ UNCHANGED nStarts
       ELSE startListening
    /\ UNCHANGED <<canvasState, frameVars, promptVars>>
    /\ Render(pending, surface, path, rt)

\* startListening resumed with the stream: streamRef, live.connect,
\* sessionPromiseRef
getUserMediaResolved(c) ==
    /\ calls[c].pc = "gum"
    /\ calls' = [calls EXCEPT ![c].pc = "done", ![c].stream = "live",
                              ![c].session = "connecting"]
    /\ streamRef' = c
    /\ sessionPromiseRef' = c
    /\ lastOp' = "getUserMediaResolved"
    /\ wasStopped' = Stopped
    /\ UNCHANGED <<isListening, audioContextRef, processorRef, nStarts, nOps>>
    /\ UNCHANGED <<frameVars, promptVars>>
    /\ audioFrame

\* a slip: a catch that logs the error and leaves the pipeline as it is
getUserMediaRejectedLogged(c) ==
    /\ calls[c].pc = "gum"
    /\ calls' = [calls EXCEPT ![c].pc = "done"]
    /\ lastOp' = "getUserMediaRejected"
    /\ wasStopped' = Stopped
    /\ UNCHANGED <<isListening, audioContextRef, streamRef, processorRef,
                   sessionPromiseRef, nStarts, nOps>>
    /\ UNCHANGED <<frameVars, promptVars>>
    /\ audioFrame

\* startListening resumed with getUserMedia's rejection: the catch
getUserMediaRejected(c) ==
    /\ calls[c].pc = "gum"
    /\ stopListening([calls EXCEPT ![c].pc = "done"])
    /\ lastOp' = "getUserMediaRejected"
    /\ wasStopped' = Stopped
    /\ UNCHANGED <<nStarts, nOps>>
    /\ UNCHANGED <<frameVars, promptVars>>
    /\ audioFrame

\* callbacks.onopen of call c's session; on an audio context that has been
\* closed, createMediaStreamSource either throws (no processor is made) or
\* goes through, depending on the browser
onopen(c) ==
    /\ calls[c].session = "connecting"
    /\ \/ /\ calls' = [calls EXCEPT ![c].session = "open", ![c].proc = "connected",
                                     ![c].events = (calls[c].ctx = "running")]
          /\ processorRef' = c
       \/ /\ calls[c].ctx = "closed"
          /\ calls' = [calls EXCEPT ![c].session = "open"]
          /\ UNCHANGED processorRef
    /\ lastOp' = "onopen"
    /\ wasStopped' = Stopped
    /\ UNCHANGED <<isListening, audioContextRef, streamRef, sessionPromiseRef, nStarts,
                   nOps>>
    /\ UNCHANGED <<frameVars, promptVars>>
    /\ audioFrame

\* callbacks.onclose of call c's session
onclose(c) ==
    /\ calls[c].session \in {"connecting", "open", "failed"}
    /\ stopListening([calls EXCEPT ![c].session = "closed"])
    /\ lastOp' = "onclose"
    /\ wasStopped' = Stopped
    /\ UNCHANGED <<nStarts, nOps>>
    /\ UNCHANGED <<frameVars, promptVars>>
    /\ audioFrame

\* callbacks.onerror of call c's session
onerror(c) ==
    /\ calls[c].session \in {"connecting", "open"}
    /\ stopListening([calls EXCEPT ![c].session = "failed"])
    /\ lastOp' = "onerror"
    /\ wasStopped' = Stopped
    /\ UNCHANGED <<nStarts, nOps>>
    /\ UNCHANGED <<frameVars, promptVars>>
    /\ audioFrame


(* ----------------------------- audio frames ---------------------------- *)
\* the factor of line 622
Scale == 32768
\* a sample is the float n / SampleDen: the floats in [-1, 1] with two binary
\* places below 1/32768, so that sample * 32768 is n / 4, exactly
SampleDen == 4 * Scale
\* the samples of getChannelData(0): -1, -0.75/32768, -0.5/32768, 0,
\* 0.5/32768, 0.75/32768, 1 - 0.25/32768 and 1
Samples == {-SampleDen, -3, -2, 0, 2, 3, SampleDen - 1, SampleDen}

\* the integer part of n / d, towards zero (ToIntegerOrInfinity)
Truncate(n, d) == IF n >= 0 THEN n \div d ELSE -((-n) \div d)

\* storing the integer x into an Int16Array element: x modulo 2^16, read as a
\* two's-complement 16-bit value
ToInt16(x) == ((x + Scale) % (2 * Scale)) - Scale

\* int16[i] = inputData[i] * 32768, for the sample n / SampleDen
\* ((n / SampleDen) * 32768 is n / (SampleDen / 32768))
quantize(n) == ToInt16(Truncate(n, SampleDen \div Scale))

\* a slip: the waiting frames passed on latest first
flushThenReversed(q, out) == out \o [i \in 1..Len(q) |-> q[Len(q) - i + 1]]

\* the frames of a promise's then-callbacks, run in the order they were added
flushThen(q, out) == out \o q

\* the session a frame of call c's processor is sent to: the sessionPromise
\* of the closure, which is call c's own
frameSession(c) == c

\* processor.onaudioprocess of call c, for a buffer whose sample is n.  The
\* handler has no test of its own: it runs for every audioprocess event the
\* browser delivers, those queued before stopListening disconnected the
\* processor and closed the context included.  The frame is numbered in
\* capture order; sessionPromise.then runs its callback at once (before the
\* next event) when the promise has resolved, and keeps it for the
\* resolution otherwise
onaudioprocess(c, n) ==
    /\ calls[c].events
    /\ nFrames < MaxFrames
    /\ nFrames' = nFrames + 1
    /\ frame' = [sample |-> n, int16 |-> quantize(n)]
    /\ LET f == [id |-> nFrames + 1, early |-> c \notin resolved,
                 to |-> frameSession(c)]
       IN  IF c \in resolved
           THEN /\ sent' = [sent EXCEPT ![c] = Append(@, f)]
                /\ UNCHANGED thenQ
           ELSE /\ thenQ' = [thenQ EXCEPT ![c] = Append(@, f)]
                /\ UNCHANGED sent
    /\ lastOp' = "onaudioprocess"
    /\ wasStopped' = Stopped
    /\ UNCHANGED <<audioVars, resolved, nOps>>
    /\ UNCHANGED promptVars
    /\ audioFrame

\* the promise of live.connect resolves with call c's session, after onopen:
\* its then-callbacks run, each handing its frame to sendRealtimeInput
connectResolved(c) ==
    /\ calls[c].session = "open"
    /\ c \notin resolved
    /\ resolved' = resolved \cup {c}
    /\ sent' = [sent EXCEPT ![c] = flushThen(thenQ[c], @)]
    /\ thenQ' = [thenQ EXCEPT ![c] = <<>>]
    /\ lastOp' = "connectResolved"
    /\ wasStopped' = Stopped
    /\ UNCHANGED <<audioVars, nFrames, frame, nOps>>
    /\ UNCHANGED promptVars
    /\ audioFrame

(* ------------------------------ the prompt ----------------------------- *)
\* a string is the sequence of its characters
Chars == {"a", "b", " ", "\t"}

\* inputTranscription.text of a message
Fragments ==
    { <<>>, <<"a">>, <<"b">>, <<"a", " ", "b">>, <<" ">>, <<"b", "\t">> }

\* e.target.value of the input's onChange
EditValues == { <<>>, <<"a">>, <<"b">>, <<"a", " ">>, <<"a", "\t">>, <<"b", "a">> }

\* e.target.value when the prompt is only typed in order to submit it
TypedValues == { <<>>, <<"a">> }

\* prev.slice(-1)
lastChar(prev) == IF Len(prev) = 0 THEN <<>> ELSE <<prev[Len(prev)]>>

\* (prev.length > 0 && lastChar !== ' ') ? ' ' : ''
mergeSpace(prev) ==
    IF Len(prev) > 0 /\ lastChar(prev) # <<" ">> THEN <<" ">> ELSE <<>>

\* a slip: prev.trimEnd() + ' ' + text, which rewrites the end of the buffer
mergeFragmentTrimmed(prev, text) ==
    LET t == IF Len(prev) > 0 /\ lastChar(prev) \in {<<" ">>, <<"\t">>}
             THEN SubSeq(prev, 1, Len(prev) - 1)
             ELSE prev
    IN  IF Len(t) > 0 THEN t \o <<" ">> \o text ELSE text

\* a slip: a fragment equal to the end of the buffer taken for a repetition
mergeFragmentDeduped(prev, text) ==
    IF Len(prev) >= Len(text)
       /\ SubSeq(prev, Len(prev) - Len(text) + 1, Len(prev)) = text
    THEN prev
    ELSE prev \o mergeSpace(prev) \o text

\* the updater of setPrompt in onmessage: prev + space + text
mergeFragment(prev, text) == prev \o mergeSpace(prev) \o text

\* callbacks.onmessage of call c's session with inputTranscription.text = text:
\* an empty text is skipped; the updater runs on the latest prompt
onmessage(c, text) ==
    /\ calls[c].session = "open"
    /\ nMsgs < MaxMsgs
    /\ Len(prompt) + 1 + Len(text) <= MaxPrompt
    /\ nMsgs' = nMsgs + 1
    /\ prompt' = IF text # <<>> THEN mergeFragment(prompt, text) ELSE prompt
    /\ pl' = [pl EXCEPT !.frags = IF pl.edited THEN <<>> ELSE Append(@, text),
                         !.text = text, !.from = c]
    /\ lastOp' = "onmessage"
    /\ wasStopped' = Stopped
    /\ UNCHANGED <<audioVars, frameVars, nOps>>
    /\ audioFrame

\* onChange of the prompt input: setPrompt(e.target.value).  The input shows
\* the prompt of the last render, and the event comes with a changed value.
handlePromptChange(value) ==
    /\ UserOp("handlePromptChange")
    /\ value # rendered.prompt
    /\ prompt' = value
    /\ pl' = [pl EXCEPT !.frags = <<>>, !.edited = TRUE, !.typed = value]
    /\ wasStopped' = Stopped
    /\ UNCHANGED <<audioVars, frameVars, nMsgs, modalText>>
    /\ UNCHANGED canvasState
    /\ Render(pending, surface, path, rt)

Init ==
    /\ hasKey = "null"
    /\ keyCheck = TRUE
    /\ keySelect = 0
    /\ canvasRef = 1
    /\ mounts = 1
    /\ surface = FillWhite          \* initializeCanvas, run by the mount effect
    /\ path = NoPath
    /\ penColor = "K"
    /\ isDrawing = FALSE
    /\ undoStack = <<>>
    /\ redoStack = <<>>
    /\ generatedImage = NoUrl
    /\ backgroundImageRef = NoUrl
    /\ pending = <<>>
    /\ isLoading = FALSE
    /\ inFlight = 0
    /\ showErrorModal = FALSE
    /\ errorMessage = ""
    /\ rendered = [undoStack |-> <<>>, redoStack |-> <<>>, generatedImage |-> NoUrl,
                   hasKey |-> "null", isLoading |-> FALSE, showErrorModal |-> FALSE,
                   isListening |-> FALSE, prompt |-> <<>>,
                   isDrawing |-> FALSE, penColor |-> "K"]
    /\ modalText = returns(<<>>)
    /\ isListening = FALSE
    /\ audioContextRef = 0
    /\ streamRef = 0
    /\ processorRef = 0
    /\ sessionPromiseRef = 0
    /\ calls = [c \in CallIds |-> noCall]
    /\ nStarts = 0
    /\ resolved = {}
    /\ thenQ = [c \in CallIds |-> <<>>]
    /\ sent = [c \in CallIds |-> <<>>]
    /\ nFrames = 0
    /\ frame = [sample |-> 0, int16 |-> 0]
    /\ prompt = <<>>
    /\ nMsgs = 0
    /\ pl = [frags |-> <<>>, edited |-> FALSE, typed |-> <<>>, text |-> <<>>,
             from |-> 0]
    /\ wasStopped = TRUE
    /\ lastOp = "init"
    /\ nOps = 0
    /\ rt = rtIdle

(* --------------------------- the specification ------------------------- *)
\* the canvas, its history and the image generation
Next ==
    \/ \E q \in Pixels, zero \in BOOLEAN : startDrawing(q, zero)
    \/ \E p \in Pixels, zero \in BOOLEAN : draw(p, zero)
    \/ \E discrete \in BOOLEAN : stopDrawing(discrete)
    \/ clearCanvas
    \/ \E c \in PenColours : handleColorChange(c)
    \/ undo
    \/ redo
    \/ \E i \in 1..MaxPending : loadOnload(i)
    \/ \E i \in 1..MaxPending : genOnload(i)
    \/ \E u \in GenUrls : handleFileUpload(u)
    \/ \E i \in 1..MaxPending : readerOnload(i)
    \/ \E b \in {"true", "false"} : checkApiKey(b)
    \/ handleSelectKey
    \/ selectKeyResolved
    \/ selectKeyRejected
    \/ \E v \in TypedValues : handlePromptChange(v)
    \/ handleSubmit
    \/ \E u \in GenUrls : generateImage(u)
    \/ generateNoImage
    \/ \E m \in ErrMsgs : generateRejected(m)
    \/ closeErrorModal
    \/ handleExport
    \/ handleSubmitNoContext
    \/ render

Spec == Init /\ [][Next]_vars

\* the restores of the history complete: every decode that loadState starts
\* fires its onload
SpecLive ==
    Spec /\ WF_vars(\E i \in 1..MaxPending : loadOnload(i))

\* the generation call returns
Response ==
    \/ \E u \in GenUrls : generateImage(u)
    \/ generateNoImage
    \/ \E m \in ErrMsgs : generateRejected(m)

\* every generation call returns, with one of its outcomes
SpecSubmit ==
    Spec /\ WF_vars(Response)

\* the error modal: {parseError(errorMessage)} is evaluated when it is rendered
renderErrorModal ==
    /\ uiRendered
    /\ rendered.showErrorModal
    /\ modalText' = parseError(errorMessage)
    /\ lastOp' = "renderErrorModal"
    /\ UNCHANGED <<keyFrame, submitFrame, penColor, isDrawing, undoStack, redoStack,
                   generatedImage, backgroundImageRef, domVars, voiceVars, nOps, rt>>

\* the component with its error modal open on an error string of ErrStrings
InitParse ==
    /\ hasKey = "null"
    /\ keyCheck = TRUE
    /\ keySelect = 0
    /\ canvasRef = 1
    /\ mounts = 1
    /\ surface = FillWhite          \* initializeCanvas, run by the mount effect
    /\ path = NoPath
    /\ penColor = "K"
    /\ isDrawing = FALSE
    /\ undoStack = <<>>
    /\ redoStack = <<>>
    /\ generatedImage = NoUrl
    /\ backgroundImageRef = NoUrl
    /\ pending = <<>>
    /\ isLoading = FALSE
    /\ inFlight = 0
    /\ showErrorModal = TRUE
    /\ errorMessage \in ErrStrings
    /\ rendered = [undoStack |-> <<>>, redoStack |-> <<>>, generatedImage |-> NoUrl,
                   hasKey |-> "null", isLoading |-> FALSE, showErrorModal |-> TRUE,
                   isListening |-> FALSE, prompt |-> <<>>,
                   isDrawing |-> FALSE, penColor |-> "K"]
    /\ modalText = returns(<<>>)
    /\ isListening = FALSE
    /\ audioContextRef = 0
    /\ streamRef = 0
    /\ processorRef = 0
    /\ sessionPromiseRef = 0
    /\ calls = [c \in CallIds |-> noCall]
    /\ nStarts = 0
    /\ resolved = {}
    /\ thenQ = [c \in CallIds |-> <<>>]
    /\ sent = [c \in CallIds |-> <<>>]
    /\ nFrames = 0
    /\ frame = [sample |-> 0, int16 |-> 0]
    /\ prompt = <<>>
    /\ nMsgs = 0
    /\ pl = [frags |-> <<>>, edited |-> FALSE, typed |-> <<>>, text |-> <<>>,
             from |-> 0]
    /\ wasStopped = TRUE
    /\ lastOp = "init"
    /\ nOps = 0
    /\ rt = rtIdle

NextParse ==
    \/ renderErrorModal
    \/ closeErrorModal

SpecParse == InitParse /\ [][NextParse]_vars

\* the voice pipeline
NextAudio ==
    \/ toggleListening
    \/ \E c \in CallIds : getUserMediaResolved(c)
    \/ \E c \in CallIds : getUserMediaRejected(c)
    \/ \E c \in CallIds : onopen(c)
    \/ \E c \in CallIds : onclose(c)
    \/ \E c \in CallIds : onerror(c)
    \/ render

SpecAudio == Init /\ [][NextAudio]_vars

\* the voice pipeline with its audio frames
NextFrames ==
    \/ toggleListening
    \/ \E c \in CallIds : getUserMediaResolved(c)
    \/ \E c \in CallIds : getUserMediaRejected(c)
    \/ \E c \in CallIds : onopen(c)
    \/ \E c \in CallIds : onclose(c)
    \/ \E c \in CallIds : onerror(c)
    \/ \E c \in CallIds : connectResolved(c)
    \/ \E c \in CallIds, n \in Samples : onaudioprocess(c, n)
    \/ render

SpecFrames == Init /\ [][NextFrames]_vars

\* the voice pipeline with the prompt it writes to and the keyboard
NextPrompt ==
    \/ nOps < PromptOps /\ toggleListening
    \/ \E c \in CallIds : getUserMediaResolved(c)
    \/ \E c \in CallIds : getUserMediaRejected(c)
    \/ \E c \in CallIds : onopen(c)
    \/ \E c \in CallIds : onclose(c)
    \/ \E c \in CallIds : onerror(c)
    \/ \E c \in CallIds, t \in Fragments : onmessage(c, t)
    \/ nOps < PromptOps /\ \E v \in EditValues : handlePromptChange(v)
    \/ render

SpecPrompt == Init /\ [][NextPrompt]_vars

\* The whole component: the canvas, its history, the key, the prompt and the
\* generation of Next together with the voice pipeline, its transcript and its
\* audio frames (buffers of silence: the samples matter to the quantisation
\* only)
NextJoint ==
    \/ nOps < JointOps /\ \E q \in Pixels, zero \in BOOLEAN : startDrawing(q, zero)
    \/ nOps < JointOps /\ \E p \in Pixels, zero \in BOOLEAN : draw(p, zero)
    \/ nOps < JointOps /\ \E discrete \in BOOLEAN : stopDrawing(discrete)
    \/ nOps < JointOps /\ clearCanvas
    \/ nOps < JointOps /\ \E c \in PenColours : handleColorChange(c)
    \/ nOps < JointOps /\ undo
    \/ nOps < JointOps /\ redo
    \/ \E i \in 1..MaxPending : loadOnload(i)
    \/ \E i \in 1..MaxPending : genOnload(i)
    \/ nOps < JointOps /\ \E u \in GenUrls : handleFileUpload(u)
    \/ \E i \in 1..MaxPending : readerOnload(i)
    \/ \E b \in {"true", "false"} : checkApiKey(b)
    \/ nOps < JointOps /\ handleSelectKey
    \/ selectKeyResolved
    \/ selectKeyRejected
    \/ nOps < JointOps /\ \E v \in TypedValues : handlePromptChange(v)
    \/ nOps < JointOps /\ handleSubmit
    \/ \E u \in GenUrls : generateImage(u)
    \/ generateNoImage
    \/ \E m \in ErrMsgs : generateRejected(m)
    \/ nOps < JointOps /\ closeErrorModal
    \/ nOps < JointOps /\ handleExport
    \/ nOps < JointOps /\ handleSubmitNoContext
    \/ nOps < JointOps /\ toggleListening
    \/ \E c \in CallIds : getUserMediaResolved(c)
    \/ \E c \in CallIds : getUserMediaRejected(c)
    \/ \E c \in CallIds : onopen(c)
    \/ \E c \in CallIds : onclose(c)
    \/ \E c \in CallIds : onerror(c)
    \/ \E c \in CallIds : connectResolved(c)
    \/ nFrames < JointFrames /\ \E c \in CallIds : onaudioprocess(c, 0)
    \/ nMsgs < JointMsgs /\ \E c \in CallIds, t \in Fragments : onmessage(c, t)
    \/ render

SpecJoint == Init /\ [][NextJoint]_vars

(* ------------------------------- the claims ---------------------------- *)
\* the operations that record themselves through saveState
Mutating == {"startDrawing", "clearCanvas", "genOnload"}

\* C1 (round-trip law): after a run of N mutating operations, each begun with
\* no decode in flight, N undo calls, each begun with no decode in flight,
\* leave the Surface as it was before the run, and N redo calls after them
\* leave it as it was after the N-th mutation.
C1_RoundTrip ==
    (rt.mclean /\ rt.uclean /\ pending = <<>> /\ rt.k = Len(rt.pre)) =>
        /\ rt.phase = "undo" => surface = rt.pre[1]
        /\ (rt.phase = "redo" /\ rt.j = rt.k) => surface = rt.F

\* C2 (pre-image semantics): the snapshot a mutating operation pushes onto
\* undoStack is the Surface as it was before the operation changed a pixel.
C2_PreImage ==
    [][(lastOp' \in Mutating /\ canvasRef # 0)
        => undoStack' = Append(undoStack, toDataURL(surface))]_vars

\* C3: after a mutating operation that is not undo or redo (startDrawing,
\* clearCanvas, the completed load of a generated or imported image onto the
\* canvas), redoStack is empty, whatever it held before, and a redo issued
\* next changes neither stack nor the Surface and starts no decode.
C3_RedoCleared ==
    /\ []((lastOp \in Mutating /\ canvasRef # 0) => redoStack = <<>>)
    /\ [][(lastOp \in Mutating /\ canvasRef # 0 /\ lastOp' = "redo")
            => UNCHANGED <<undoStack, redoStack, surface, pending>>]_vars

\* C4: undo on an empty undoStack and redo on an empty redoStack change
\* neither stack nor the Surface and start no image decode.
C4_EmptyNoOp ==
    [][/\ (lastOp' = "undo" /\ undoStack = <<>>)
            => UNCHANGED <<undoStack, redoStack, surface, pending>>
       /\ (lastOp' = "redo" /\ redoStack = <<>>)
            => UNCHANGED <<undoStack, redoStack, surface, pending>>]_vars

\* C5: undo on a non-empty undoStack (its button enabled) removes its last
\* element, appends the Surface's current state to redoStack and hands the
\* removed element to loadState; redo does the same with the stacks swapped.
C5_UndoRedoStep ==
    [][/\ (lastOp' = "undo" /\ undoStack # <<>> /\ rendered.undoStack # <<>>)
            => /\ undoStack' = SubSeq(undoStack, 1, Len(undoStack) - 1)
               /\ redoStack' = Append(redoStack, toDataURL(surface))
               /\ Len(pending') > Len(pending)
               /\ pending'[Len(pending) + 1].kind = "load"
               /\ pending'[Len(pending) + 1].data = undoStack[Len(undoStack)]
               /\ pending'[Len(pending) + 1].target = canvasRef
       /\ (lastOp' = "redo" /\ redoStack # <<>> /\ rendered.redoStack # <<>>)
            => /\ redoStack' = SubSeq(redoStack, 1, Len(redoStack) - 1)
               /\ undoStack' = Append(undoStack, toDataURL(surface))
               /\ Len(pending') > Len(pending)
               /\ pending'[Len(pending) + 1].kind = "load"
               /\ pending'[Len(pending) + 1].data = redoStack[Len(redoStack)]
               /\ pending'[Len(pending) + 1].target = canvasRef]_vars

\* C6 (LIFO order): in a run of strokes and clears followed by k undo calls
\* and then redo calls, the k-th undo renders the pre-image of the k-th most
\* recent mutation, the redo stack then holds, top first, the states the redo
\* calls restore forward through (the pre-images of the later mutations, then
\* the latest state), and the j-th redo renders the j-th of them.
C6_LIFO ==
    LET n == Len(rt.pre)
        fwd(i) == IF i = rt.k THEN rt.F ELSE rt.pre[n - rt.k + i + 1]
    IN  (rt.mclean /\ rt.plain) =>
            /\ (rt.phase = "undo" /\ lastOp = "undo")
                => /\ rt.handed = toDataURL(rt.pre[n - rt.k + 1])
                   /\ Len(redoStack) >= rt.k
                   /\ \A i \in 1..rt.k :
                        redoStack[Len(redoStack) - i + 1] = toDataURL(fwd(i))
            /\ (rt.phase = "redo" /\ lastOp = "redo")
                => rt.handed = toDataURL(fwd(rt.j))

\* C7 (single writer): no decode completion paints the Surface after a
\* stroke, clear, undo or redo issued later than the decode has started.
C7_SingleWriter ==
    [][(lastOp' \in {"loadOnload", "genOnload"} /\ surface' # surface)
        => \A i \in 1..Len(pending) :
             pending' = RemoveAt(pending, i) => ~pending[i].stale]_vars

\* C8 (eventually-consistent restore): an undo or redo that goes ahead changes
\* both stacks in its own step and no pixel of the canvas; and from there,
\* the decodes completing, the Surface comes to equal the snapshot that was
\* popped, unless another operation takes the canvas over first.
C8_Restore ==
    /\ [][(lastOp' \in {"undo", "redo"} /\ rt'.handed # NoUrl)
            => /\ canvasRef' = canvasRef => surface' = surface
               /\ Len(undoStack') # Len(undoStack)
               /\ Len(redoStack') # Len(redoStack)]_vars
    /\ (lastOp \in {"undo", "redo"} /\ rt.handed # NoUrl)
            ~> (rt.handed = NoUrl \/ surface = drawImage(rt.popped, Cleared))

\* C9: the catch branch of handleSubmit, and the render of the state it
\* sets, leave the Surface, the canvas and both stacks as they were, whatever
\* the error message.
C9_ErrorKeepsCanvas ==
    [][(lastOp' = "generateRejected" \/ (lastOp = "generateRejected" /\ lastOp' = "render"))
        => UNCHANGED <<surface, canvasRef, undoStack, redoStack>>]_vars

\* C10: at most one microphone stream with live tracks and at most one open
\* transcription session exist.
C10_OneMicOneSession ==
    /\ Cardinality({c \in CallIds : calls[c].stream = "live"}) <= 1
    /\ Cardinality({c \in CallIds : calls[c].session = "open"}) <= 1

(* --------------------------- the voice claims -------------------------- *)
\* a startListening call is suspended at getUserMedia or at the connect
InFlight(c) == calls[c].pc = "gum" \/ calls[c].session = "connecting"

\* C11: once stopListening has run and every startListening that was in
\* flight has completed, no microphone stream is live, no processor is
\* connected, no session is open and isListening is false.
C11_StopReleasesAll ==
    (~isListening /\ nStarts > 0 /\ \A c \in CallIds : ~InFlight(c))
        => \A c \in CallIds :
              /\ calls[c].stream # "live"
              /\ calls[c].proc # "connected"
              /\ calls[c].session # "open"

\* a step in which stopListening runs
StopStep ==
    \/ lastOp' \in {"getUserMediaRejected", "onclose", "onerror"}
    \/ lastOp' = "toggleListening" /\ rendered.isListening

\* C12: stopListening leaves the pipeline Stopped, and run when the pipeline
\* is already Stopped it changes neither isListening nor a ref nor an audio
\* context, stream or processor; so a second call in a row changes nothing.
C12_StopIdempotent ==
    [][StopStep =>
        /\ Stopped'
        /\ Stopped => \A c \in CallIds :
                         /\ calls'[c].ctx = calls[c].ctx
                         /\ calls'[c].stream = calls[c].stream
                         /\ calls'[c].proc = calls[c].proc]_vars

\* stopListening has run a second time in a row (from onclose, onerror or the
\* catch), after the first had released a stream
C12_Witness ==
    /\ lastOp \in {"getUserMediaRejected", "onclose", "onerror"}
    /\ wasStopped
    /\ Stopped
    /\ \E c \in CallIds : calls[c].stream = "stopped" /\ calls[c].ctx = "closed"

\* C13: a startListening call goes ahead (creates an audio context, then
\* acquires the microphone and opens a session) only when the pipeline is
\* Stopped: no other call is Starting (suspended in flight) or Streaming (its
\* stream live or its processor connected).
C13_StartRejected ==
    [][nStarts' # nStarts =>
        /\ Stopped
        /\ \A c \in CallIds :
              /\ ~InFlight(c)
              /\ calls[c].stream # "live"
              /\ calls[c].proc # "connected"]_vars

\* a step in which a start attempt fails: getUserMedia is rejected, or the
\* session's onerror fires before the session has opened
FailedStartStep ==
    \/ lastOp' = "getUserMediaRejected"
    \/ /\ lastOp' = "onerror"
       /\ \E c \in CallIds : calls[c].session = "connecting" /\ calls'[c].session = "failed"

\* C14: when a start attempt fails the pipeline is Stopped: isListening is
\* false and the audio-context, stream, processor and session refs are null.
C14_FailedStartStops ==
    [][FailedStartStep => Stopped']_vars

\* getUserMedia was rejected while the pipeline was listening, and the
\* call's audio context has been closed
C14_Witness ==
    /\ lastOp = "getUserMediaRejected"
    /\ ~wasStopped
    /\ Stopped
    /\ \E c \in CallIds :
          calls[c].pc = "done" /\ calls[c].stream = "none" /\ calls[c].ctx = "closed"

\* C15: when onerror fires the whole pipeline is torn down (no processor
\* connected, no microphone stream live, no audio context running,
\* isListening false) and the callback starts no capture and no session.
C15_ErrorTearsDown ==
    [][lastOp' = "onerror" =>
        /\ ~isListening'
        /\ nStarts' = nStarts
        /\ \A c \in CallIds :
              /\ calls'[c].proc # "connected"
              /\ calls'[c].stream # "live"
              /\ calls'[c].ctx # "running"]_vars

\* round(n / d), halves away from zero
Round(n, d) ==
    IF n >= 0 THEN (2 * n + d) \div (2 * d) ELSE -((2 * (-n) + d) \div (2 * d))

\* x clamped to the 16-bit range
Clamp16(x) == IF x > Scale - 1 THEN Scale - 1 ELSE IF x < -Scale THEN -Scale ELSE x

\* C16: the 16-bit value stored for a sample s in [-1, 1] is round(s * 32768)
\* clamped to [-32768, 32767]; s = 1 yields 32767.
C16_Quantize ==
    frame.int16 = Clamp16(Round(frame.sample, SampleDen \div Scale))

Whitespace == {" ", "\t"}

\* C17: the prompt after a transcript event is buffer + fragment when the
\* buffer is empty or ends with whitespace, and buffer + one space + fragment
\* otherwise, for every buffer and every fragment, the empty one included.
C17_MergeRule ==
    [][lastOp' = "onmessage" =>
        prompt' = IF prompt = <<>> \/ prompt[Len(prompt)] \in Whitespace
                  THEN prompt \o pl'.text
                  ELSE prompt \o <<" ">> \o pl'.text]_vars

IsPrefix(a, b) == Len(a) <= Len(b) /\ SubSeq(b, 1, Len(a)) = a

\* C18: the prompt right before a transcript event is a prefix of the prompt
\* right after it, whatever manual edits and transcript events came before.
C18_AppendOnly ==
    [][lastOp' = "onmessage" => IsPrefix(prompt, prompt')]_vars

\* a fragment has been merged behind a text that was typed by hand
C18_Witness ==
    /\ lastOp = "onmessage"
    /\ pl.edited
    /\ pl.typed # <<>>
    /\ pl.text # <<>>
    /\ IsPrefix(pl.typed, prompt)
    /\ Len(prompt) >= Len(pl.typed) + Len(pl.text)

\* the characters of s that are not whitespace
Letters(s) == SelectSeq(s, LAMBDA ch : ch \notin Whitespace)

\* a fragment as the endpoint sends them: words, no whitespace at either end
PlainWords(f) == f # <<>> /\ f[1] \notin Whitespace /\ f[Len(f)] \notin Whitespace

RECURSIVE Concat(_)
Concat(fs) == IF fs = <<>> THEN <<>> ELSE fs[1] \o Concat(Tail(fs))

RECURSIVE JoinSpace(_)
JoinSpace(fs) ==
    IF fs = <<>> THEN <<>>
    ELSE IF Len(fs) = 1 THEN fs[1]
    ELSE fs[1] \o <<" ">> \o JoinSpace(Tail(fs))

\* C19: with an empty prompt at the start and no manual edit, the prompt
\* holds the delivered fragments in delivery order, each as often as it was
\* delivered: its letters are the fragments' letters in order, and for
\* fragments made of words it is the fragments joined by one space.
C19_DeliveryOrder ==
    ~pl.edited =>
        /\ Letters(prompt) = Letters(Concat(pl.frags))
        /\ (\A i \in 1..Len(pl.frags) : PlainWords(pl.frags[i]))
              => prompt = JoinSpace(pl.frags)

\* three fragments were delivered, the first of them twice, the last one of
\* two words
C19_Witness ==
    /\ ~pl.edited
    /\ Len(pl.frags) = 3
    /\ pl.frags[1] = pl.frags[2]
    /\ pl.frags[3] = <<"a", " ", "b">>
    /\ prompt = <<"a", " ", "a", " ", "a", " ", "b">>

\* C20: the frames passed to sendRealtimeInput are in capture order, none
\* twice, and the frames produced before the session promise resolved wait
\* for it in capture order and are all passed on when it resolves.
C20_FramesInOrder ==
    \A c \in CallIds :
        LET all == sent[c] \o thenQ[c]
        IN  /\ \A i, j \in 1..Len(all) : i < j => all[i].id < all[j].id
            /\ c \in resolved => thenQ[c] = <<>>
            /\ \A i \in 1..Len(thenQ[c]) : thenQ[c][i].early

\* two frames produced before the promise resolved and one produced after it
\* have been sent
C20_Witness ==
    \E c \in CallIds :
        /\ c \in resolved
        /\ Len(sent[c]) >= 3
        /\ sent[c][1].early
        /\ sent[c][2].early
        /\ ~sent[c][3].early

\* stopListening has run since call c started: isListening is true from the
\* start of a call to the next stopListening, and a later call starts only
\* when it is false
stoppedCall(c) == c <= nStarts /\ (c < nStarts \/ ~isListening)

\* C21: every audio frame passed to sendRealtimeInput goes to the session of
\* the startListening call whose processor produced it, and none is passed on
\* once that call has been stopped or its session replaced as the current one
\* (such a frame is dropped).
C21_OwnSession ==
    [][\A c \in CallIds :
         \A i \in (Len(sent[c]) + 1)..Len(sent'[c]) :
            /\ sent'[c][i].to = c
            /\ ~stoppedCall(c)
            /\ sessionPromiseRef = c]_vars

\* C22: after stopListening has run, no frame of a call it stopped is passed
\* to sendRealtimeInput (the callbacks waiting on the session promise are
\* cancelled) and the call's processor produces no frame.
C22_NoFrameAfterStop ==
    [][\A c \in CallIds :
         (Len(sent'[c]) > Len(sent[c]) \/ Len(thenQ'[c]) > Len(thenQ[c]))
            => ~stoppedCall(c)]_vars

\* C28: once stopListening has run, no transcript fragment of a session it
\* stopped is appended to the prompt.
C28_NoTranscriptAfterStop ==
    [][(lastOp' = "onmessage" /\ prompt' # prompt) => ~stoppedCall(pl'.from)]_vars

(* ----------------- the surface when read, requests, history ------------ *)
Opaque(px) == \A p \in Pixels : px[p] # "T"

\* the handler of this step serialises the bitmap as it stood before the step
ReadsSurface ==
    \/ lastOp' \in {"startDrawing", "clearCanvas", "handleSubmit", "handleExport"}
    \/ lastOp' = "undo" /\ Len(undoStack') < Len(undoStack)
    \/ lastOp' = "redo" /\ Len(redoStack') < Len(redoStack)

\* C23: whenever the surface is read (saveState at the start of a stroke or a
\* clear, undo and redo capturing the current state, handleSubmit, handleExport,
\* and saveState after an image load) no pixel of it is transparent.
C23_OpaqueWhenRead ==
    [][/\ (ReadsSurface /\ canvasRef # 0) => Opaque(surface)
       /\ (lastOp' = "genOnload" /\ canvasRef # 0) => Opaque(surface')]_vars

\* C24: at most one generation request is outstanding: isLoading is true
\* exactly while a request is outstanding, handleSubmit issues a request only
\* when none is, and a request leaves only by one of its three outcomes.
C24_OneRequest ==
    /\ [](inFlight <= 1 /\ (isLoading <=> inFlight = 1))
    /\ [][/\ inFlight' > inFlight => (lastOp' = "handleSubmit" /\ ~isLoading /\ inFlight = 0)
          /\ inFlight' < inFlight =>
                lastOp' \in {"generateImage", "generateNoImage", "generateRejected"}]_vars

\* a request is outstanding and the user has gone on using the page
C24_Witness ==
    /\ isLoading
    /\ inFlight = 1
    /\ lastOp \in {"startDrawing", "undo", "handleExport", "handleSubmitNoContext"}

\* C25: every saveState with a canvas present (start of a stroke, clearCanvas,
\* a completed generated-image or file-import load) appends exactly one entry,
\* the serialised bitmap, to undoStack and drops nothing, whether or not the
\* entry equals the one before it.
C25_SaveAppendsOne ==
    [][(lastOp' \in Mutating /\ canvasRef # 0) =>
          /\ Len(undoStack') = Len(undoStack) + 1
          /\ SubSeq(undoStack', 1, Len(undoStack)) = undoStack
          /\ undoStack'[Len(undoStack')] =
                toDataURL(IF lastOp' = "genOnload" THEN surface' ELSE surface)]_vars

\* two saveState calls with no mutation between them left two equal entries
C25_Witness ==
    /\ lastOp = "startDrawing"
    /\ Len(undoStack) >= 2
    /\ undoStack[Len(undoStack)] = undoStack[Len(undoStack) - 1]

\* C29: the snapshot undo (redo) hands to loadState is the element its state
\* update removes from undoStack (redoStack), also when the handler runs before
\* the render that follows earlier state updates.
C29_HandedIsRemoved ==
    [][/\ (lastOp' = "undo" /\ Len(undoStack') < Len(undoStack)) =>
            pending'[Len(pending) + 1].data = undoStack[Len(undoStack)]
       /\ (lastOp' = "redo" /\ Len(redoStack') < Len(redoStack)) =>
            pending'[Len(pending) + 1].data = redoStack[Len(redoStack)]]_vars

\* C30: every outcome of handleSubmit (image returned, response without an
\* image, thrown error, no drawing context) leaves isLoading false, and a
\* submission that set isLoading is followed by its reset.
C30_LoadingReset ==
    /\ [][lastOp' \in {"generateImage", "generateNoImage", "generateRejected",
                       "handleSubmitNoContext"} => ~isLoading']_vars
    /\ (isLoading ~> ~isLoading)

\* a rejected request has returned and submission is enabled again
C30_Witness ==
    /\ lastOp = "generateRejected"
    /\ ~isLoading
    /\ showErrorModal

(* ------------------------------ parseError ----------------------------- *)
\* an object with a non-empty message
MessageObject == <<"{\"message\":\"boom\"", "}">>

\* the string embeds a structured envelope: {"error": , a payload that is an
\* object with a non-empty message, and the closing brace
EmbedsEnvelope(str) ==
    \E i \in 1..Len(str) :
        /\ i + Len(MessageObject) + 1 <= Len(str)
        /\ str[i] = "{\"error\":"
        /\ SubSeq(str, i + 1, i + Len(MessageObject)) = MessageObject
        /\ str[i + Len(MessageObject) + 1] = "}"

\* C26: parseError never throws; given a string that embeds an envelope
\* {"error": ...} whose payload parses and has a non-empty message it returns
\* that message, and given any other string it returns the string unchanged.
C26_ParseError ==
    lastOp = "renderErrorModal" =>
        /\ ~modalText.threw
        /\ modalText.value = IF EmbedsEnvelope(errorMessage) THEN <<"boom">>
                             ELSE errorMessage

(* --------------------------- the two pipelines ------------------------- *)
AudioOps ==
    {"toggleListening", "getUserMediaResolved", "getUserMediaRejected", "onopen",
     "onclose", "onerror", "onmessage", "connectResolved", "onaudioprocess"}

CanvasOps ==
    {"startDrawing", "draw", "stopDrawing", "clearCanvas", "undo", "redo",
     "loadOnload", "handleFileUpload", "readerOnload", "genOnload"}

\* the render that follows the step replaces the main tree by the key screen,
\* or the key screen by the main tree, on account of a setHasKey queued before
\* the step
KeyScreenSwitch == (hasKey = "false") # (rendered.hasKey = "false")

====
